---- MODULE Spec2Model ----
(***************************************************************************)
(* Model of notebooks/boundaries.py: get_boundaries, get_admin1_boundaries *)
(* and get_admin2_boundaries.  Each call is one linear pipeline            *)
(*   requests.get -> raise_for_status -> json -> features check ->         *)
(*   reshape -> return                                                     *)
(* inside one try block with three except clauses.  The remote service is  *)
(* the environment: the transport outcome, the status code and the body    *)
(* are chosen nondeterministically.                                        *)
(*                                                                         *)
(* Geometry is modelled on a grid of unit cells: a shapely geometry is the *)
(* set of cells it covers, its area the number of cells, unary_union the   *)
(* union of the cell sets.  Rings are rectilinear coordinate sequences.    *)
(***************************************************************************)
EXTENDS Integers, Sequences, FiniteSets, TLC

VARIABLES fn, args, pc, requests, result, res, exc, out, ret

vars == <<fn, args, pc, requests, result, res, exc, out, ret>>

Range(s) == {s[i] : i \in DOMAIN s}

(***************************************************************************)
(* Inputs                                                                  *)
(***************************************************************************)
\* Largest number of features in a response body.
MaxFeatures == 2

Functions == {"get_boundaries", "get_admin1_boundaries", "get_admin2_boundaries"}

Attrs == {"ISO_A3", "NAME_EN"}
Vals == {"HTI", "Haiti"}
IsoCodes == {"HTI", "MMR"}

\* Actual parameters of a call: <<attr, val>> or <<iso_code>>.
ArgsOf(f) ==
    IF f = "get_boundaries"
    THEN {<<a, v>> : a \in Attrs, v \in Vals}
    ELSE {<<c>> : c \in IsoCodes}

\* HTTP status codes the service may answer with.
Statuses == {200, 404, 503}

\* Rings, as the service encodes them: closed sequences of [x, y] pairs.
Rect(x0, y0, x1, y1) ==
    << <<x0, y0>>, <<x0, y1>>, <<x1, y1>>, <<x1, y0>>, <<x0, y0>> >>
RectCCW(x0, y0, x1, y1) ==
    << <<x0, y0>>, <<x1, y0>>, <<x1, y1>>, <<x0, y1>>, <<x0, y0>> >>

OuterRing == Rect(0, 0, 3, 3)
HoleRing == RectCCW(1, 1, 2, 2)
IslandRing == Rect(4, 0, 5, 1)
\* Two coordinates only: no linear ring can be built from it.
ShortRing == << <<0, 0>>, <<1, 1>> >>

NoGeometryRings == [hasRings |-> FALSE, rings |-> <<>>]
Geometries ==
    {NoGeometryRings} \cup
    { [hasRings |-> TRUE, rings |-> r] :
        r \in { <<>>, <<OuterRing>>, <<OuterRing, HoleRing>>,
                <<OuterRing, IslandRing>>, <<ShortRing>> } }

AttrDicts ==
    { [ISO_A3 |-> "HTI", NAME_EN |-> "Haiti"],
      [ISO_A3 |-> "MMR", NAME_EN |-> "Myanmar"] }

\* The order in which a feature object lists its members; a feature may lack
\* its geometry member altogether.
KeyOrders ==
    { <<"attributes", "geometry">>, <<"geometry", "attributes">>, <<"attributes">> }

Features ==
    { [keys |-> k, attributes |-> a, geometry |-> g] :
        k \in {ko \in KeyOrders : "geometry" \in Range(ko)},
        a \in AttrDicts, g \in Geometries }
    \cup
    { [keys |-> <<"attributes">>, attributes |-> a, geometry |-> NoGeometryRings] :
        a \in AttrDicts }

FeatureLists == UNION { [1..n -> Features] : n \in 0..MaxFeatures }

\* Response bodies: not JSON at all, a JSON number, a JSON array, an object
\* without `features`, an object whose `features` is null, an object with a
\* `features` array.
Body(k, fs) == [kind |-> k, features |-> fs]
Bodies ==
    { Body(k, <<>>) : k \in {"unparsable", "number", "array", "no_features_key",
                             "features_null"} }
    \cup { Body("features", fs) : fs \in FeatureLists }

NoBody == Body("", <<>>)

(***************************************************************************)
(* Exceptions                                                              *)
(***************************************************************************)
Exception(c, d) == [cls |-> c, detail |-> d]
NoException == Exception("", "")

\* Direct base class of each exception class raised in the try block.
Base(c) ==
    CASE c = "Timeout" -> "RequestException"
      [] c = "ConnectionError" -> "RequestException"
      [] c = "HTTPError" -> "RequestException"
      [] c = "requests.JSONDecodeError" -> "RequestException"
      [] c = "RequestException" -> "Exception"
      [] c = "KeyError" -> "Exception"
      [] c = "TypeError" -> "Exception"
      [] c = "ValueError" -> "Exception"
      [] OTHER -> ""

RECURSIVE IsInstance(_, _)
IsInstance(c, b) ==
    IF c = "" THEN FALSE
    ELSE IF c = b THEN TRUE
    ELSE IsInstance(Base(c), b)

(***************************************************************************)
(* shapely: geometries as sets of unit cells <<i, j>> (the cell whose      *)
(* lower-left corner is (i, j))                                            *)
(***************************************************************************)
Min(S) == CHOOSE x \in S : \A y \in S : x <= y
Max(S) == CHOOSE x \in S : \A y \in S : x >= y

\* shapely.geometry.Polygon(ring) raises ValueError when the shell has one or
\* two coordinates; an empty shell gives the empty polygon.
PolygonRaises(ring) == Len(ring) \in {1, 2}

\* Edge k of the ring crosses the horizontal ray leaving the centre of cell
\* <<i, j>> towards +x (even-odd rule; the orientation of the ring plays no part).
Crosses(ring, k, i, j) ==
    LET p == ring[k]
        q == ring[k + 1]
    IN  /\ p[1] = q[1]
        /\ p[1] > i
        /\ Min({p[2], q[2]}) <= j
        /\ j < Max({p[2], q[2]})

\* shapely.geometry.Polygon(ring): the region enclosed by the shell `ring`
\* (no interior rings are passed).
Polygon(ring) ==
    IF Len(ring) = 0 THEN {}
    ELSE
      LET xs == {ring[k][1] : k \in DOMAIN ring}
          ys == {ring[k][2] : k \in DOMAIN ring}
      IN  { c \in (Min(xs)..(Max(xs) - 1)) \X (Min(ys)..(Max(ys) - 1)) :
              Cardinality({k \in 1..(Len(ring) - 1) : Crosses(ring, k, c[1], c[2])}) % 2 = 1 }

\* shapely.ops.unary_union(geom_list): the union of the regions; the empty
\* list gives an empty geometry.
unary_union(geom_list) == UNION Range(geom_list)

\* geometry.area
Area(geom) == Cardinality(geom)

(***************************************************************************)
(* pandas: cell values and tables                                          *)
(***************************************************************************)
Cell(k, s, g, l) == [kind |-> k, s |-> s, g |-> g, l |-> l]
NaN == Cell("NaN", "", {}, <<>>)
PyNone == Cell("None", "", {}, <<>>)
Scalar(v) == Cell("scalar", v, {}, <<>>)
Geom(region) == Cell("geometry", "", region, <<>>)
RawList(rings) == Cell("list", "", {}, rings)

\* A DataFrame: row labels in order, the set of column labels, one row
\* (column -> cell) per label.
DataFrame(idx, cols, rows) ==
    [kind |-> "DataFrame", index |-> idx, columns |-> cols, rows |-> rows]
NoneValue == [kind |-> "None", index |-> <<>>, columns |-> {}, rows |-> <<>>]
Pending == [kind |-> "pending", index |-> <<>>, columns |-> {}, rows |-> <<>>]

\* The keys of member k of a feature object.
MemberKeys(f, k) ==
    IF k = "attributes" THEN DOMAIN f.attributes
    ELSE IF f.geometry.hasRings THEN {"rings"} ELSE {}

MemberValue(f, k, c) ==
    IF c \notin MemberKeys(f, k) THEN NaN
    ELSE IF k = "attributes" THEN Scalar(f.attributes[c])
    ELSE RawList(f.geometry.rings)

\* pd.DataFrame.from_dict(feature).T: one row per member of the feature, in
\* the order the feature lists them; one column per key of any member.
FromDictT(f) ==
    LET cols == UNION {MemberKeys(f, f.keys[i]) : i \in DOMAIN f.keys}
    IN  DataFrame(f.keys, cols,
                  [i \in DOMAIN f.keys |-> [c \in cols |-> MemberValue(f, f.keys[i], c)]])

\* df[:-1]: every row but the last.
DropLast(df) ==
    LET n == Len(df.index)
    IN  IF n = 0 THEN df
        ELSE DataFrame(SubSeq(df.index, 1, n - 1), df.columns, SubSeq(df.rows, 1, n - 1))

\* df.loc[label, col] = value, with pandas' setting-with-enlargement: a
\* missing row or column is added, filled with NaN.
SetLoc(df, label, col, value) ==
    LET cols == df.columns \cup {col}
        widen(r) == [c \in cols |-> IF c \in df.columns THEN r[c] ELSE NaN]
        old == [i \in DOMAIN df.rows |-> widen(df.rows[i])]
    IN  IF \E i \in DOMAIN df.index : df.index[i] = label
        THEN DataFrame(df.index, cols,
                 [i \in DOMAIN old |->
                    IF df.index[i] = label THEN [old[i] EXCEPT ![col] = value] ELSE old[i]])
        ELSE DataFrame(Append(df.index, label), cols,
                 Append(old, [c \in cols |-> IF c = col THEN value ELSE NaN]))

(***************************************************************************)
(* The body of the try block after result.json()                           *)
(***************************************************************************)
\* The outcome of a step: it returns a table, or it raises.
Returns(df) == [df |-> df, exc |-> NoException]
Raises(c, d) == [df |-> Pending, exc |-> Exception(c, d)]

\* Mutant of FeaturesCheck: the `'features' not in res` half of the test is
\* missing, so an object without the key fails on res['features'].
FeaturesCheckNoKeyTest(r) ==
    CASE r.kind = "number" -> "raise"
      [] r.kind = "features_null" -> "raise"
      [] r.kind = "array" -> "raise"
      [] r.kind = "no_features_key" -> "raise"
      [] OTHER -> IF Len(r.features) = 0 THEN "empty" ELSE "nonempty"

\* `'features' not in res or len(res['features']) == 0`: the test raises
\* TypeError on a JSON number and on `features: null`; a JSON array holds no
\* element 'features'.
FeaturesCheck(r) ==
    CASE r.kind = "number" -> "raise"
      [] r.kind = "features_null" -> "raise"
      [] r.kind = "array" -> "empty"
      [] r.kind = "no_features_key" -> "empty"
      [] OTHER -> IF Len(r.features) = 0 THEN "empty" ELSE "nonempty"

\* Mutant of FirstFeature: res['features'][-1].
LastFeature(r) == r.features[Len(r.features)]

\* res['features'][0]
FirstFeature(r) == r.features[1]

\* The geometry loop and union of one feature.  `guarded` is whether the code
\* tests `'rings' in feature['geometry']` first.
FeatureGeometry(f, guarded) ==
    IF "geometry" \notin Range(f.keys) THEN Raises("KeyError", "'geometry'")
    ELSE IF ~f.geometry.hasRings
    THEN IF guarded THEN [df |-> Pending, exc |-> NoException]
         ELSE Raises("KeyError", "'rings'")
    ELSE IF \E i \in DOMAIN f.geometry.rings : PolygonRaises(f.geometry.rings[i])
    THEN Raises("ValueError", "linearring")
    ELSE [df |-> Pending, exc |-> NoException]

\* The value bound to `geom` when FeatureGeometry does not raise.
GeomOf(f) ==
    IF f.geometry.hasRings
    THEN Geom(unary_union([i \in DOMAIN f.geometry.rings |-> Polygon(f.geometry.rings[i])]))
    ELSE PyNone

\* get_boundaries, lines 49-61.
get_boundaries_process(r) ==
    LET f == FirstFeature(r)
        df == DropLast(FromDictT(f))
        g == FeatureGeometry(f, FALSE)
    IN  IF g.exc # NoException THEN g
        ELSE Returns(SetLoc(df, "attributes", "rings", GeomOf(f)))

\* get_admin1_boundaries lines 108-131, get_admin2_boundaries lines 178-201:
\* one row per feature, the feature's attributes plus a `geometry` key.
AdminRow(f) ==
    [c \in (DOMAIN f.attributes) \cup {"geometry"} |->
        IF c = "geometry" THEN GeomOf(f) ELSE Scalar(f.attributes[c])]

\* Mutant of get_admin_process: a feature without rings is skipped instead of
\* getting a row with a null geometry.
get_admin_process_skip(r) ==
    LET fs == SelectSeq(r.features, LAMBDA f : f.geometry.hasRings)
        bad == {i \in DOMAIN fs : FeatureGeometry(fs[i], TRUE).exc # NoException}
    IN  IF bad # {} THEN FeatureGeometry(fs[Min(bad)], TRUE)
        ELSE
          LET rows == [i \in DOMAIN fs |-> AdminRow(fs[i])]
              cols == UNION {DOMAIN rows[i] : i \in DOMAIN rows}
          IN  Returns(DataFrame([i \in DOMAIN fs |-> i - 1], cols,
                        [i \in DOMAIN fs |->
                           [c \in cols |-> IF c \in DOMAIN rows[i] THEN rows[i][c] ELSE NaN]]))


get_admin_process(r) ==
    LET fs == r.features
        bad == {i \in DOMAIN fs : FeatureGeometry(fs[i], TRUE).exc # NoException}
    IN  IF bad # {} THEN FeatureGeometry(fs[Min(bad)], TRUE)
        ELSE
          LET rows == [i \in DOMAIN fs |-> AdminRow(fs[i])]
              cols == UNION {DOMAIN rows[i] : i \in DOMAIN rows}
          IN  Returns(DataFrame([i \in DOMAIN fs |-> i - 1], cols,
                        [i \in DOMAIN fs |->
                           [c \in cols |-> IF c \in DOMAIN rows[i] THEN rows[i][c] ELSE NaN]]))

Process(f, r) ==
    IF f = "get_boundaries" THEN get_boundaries_process(r) ELSE get_admin_process(r)

(***************************************************************************)
(* Diagnostics (the print calls) and the except clauses                    *)
(***************************************************************************)
\* One printed line: the f-string's fixed text and the values interpolated.
Line(text, params, detail, n) ==
    [text |-> text, params |-> params, detail |-> detail, n |-> n]

NoFeaturesText(f) ==
    CASE f = "get_boundaries" -> "No features found for {attr}='{val}'"
      [] f = "get_admin1_boundaries" -> "No admin 1 features found for ISO='{iso_code}'"
      [] f = "get_admin2_boundaries" -> "No admin 2 features found for ISO='{iso_code}'"

TimedOutText(f) ==
    IF f = "get_boundaries" THEN "Request timed out for {attr}='{val}'"
    ELSE "Request timed out for ISO='{iso_code}'"

FoundText(f) ==
    IF f = "get_admin1_boundaries" THEN "Found {len(df)} admin 1 subdivisions for {iso_code}"
    ELSE "Found {len(df)} admin 2 subdivisions for {iso_code}"

RequestErrorText == "Request error: {e}"
ProcessingErrorText == "Error processing data: {e}"

\* Mutant of Handle: the catch-all `except Exception` clause is missing.
HandleNoCatchAll(f, a, e) ==
    IF IsInstance(e.cls, "Timeout")
    THEN [pc |-> "done", print |-> <<Line(TimedOutText(f), a, "", 0)>>, ret |-> NoneValue]
    ELSE IF IsInstance(e.cls, "RequestException")
    THEN [pc |-> "done", print |-> <<Line(RequestErrorText, <<>>, e.detail, 0)>>,
          ret |-> NoneValue]
    ELSE [pc |-> "raised", print |-> <<>>, ret |-> Pending]

\* Mutant of Handle: the RequestException clause is written before the
\* Timeout clause, which it shadows.
HandleShadowed(f, a, e) ==
    IF IsInstance(e.cls, "RequestException")
    THEN [pc |-> "done", print |-> <<Line(RequestErrorText, <<>>, e.detail, 0)>>,
          ret |-> NoneValue]
    ELSE IF IsInstance(e.cls, "Timeout")
    THEN [pc |-> "done", print |-> <<Line(TimedOutText(f), a, "", 0)>>, ret |-> NoneValue]
    ELSE IF IsInstance(e.cls, "Exception")
    THEN [pc |-> "done", print |-> <<Line(ProcessingErrorText, <<>>, e.detail, 0)>>,
          ret |-> NoneValue]
    ELSE [pc |-> "raised", print |-> <<>>, ret |-> Pending]

\* Mutant of Handle: a timed-out request is issued again.
HandleRetry(f, a, e) ==
    IF IsInstance(e.cls, "Timeout")
    THEN [pc |-> "get", print |-> <<Line(TimedOutText(f), a, "", 0)>>, ret |-> Pending]
    ELSE IF IsInstance(e.cls, "RequestException")
    THEN [pc |-> "done", print |-> <<Line(RequestErrorText, <<>>, e.detail, 0)>>,
          ret |-> NoneValue]
    ELSE IF IsInstance(e.cls, "Exception")
    THEN [pc |-> "done", print |-> <<Line(ProcessingErrorText, <<>>, e.detail, 0)>>,
          ret |-> NoneValue]
    ELSE [pc |-> "raised", print |-> <<>>, ret |-> Pending]

\* What the except clauses do with exception e raised in the try block of
\* f(a): the first clause whose class e is an instance of prints its line and
\* returns None; an exception no clause matches leaves the function.
Handle(f, a, e) ==
    IF IsInstance(e.cls, "Timeout")
    THEN [pc |-> "done", print |-> <<Line(TimedOutText(f), a, "", 0)>>, ret |-> NoneValue]
    ELSE IF IsInstance(e.cls, "RequestException")
    THEN [pc |-> "done", print |-> <<Line(RequestErrorText, <<>>, e.detail, 0)>>,
          ret |-> NoneValue]
    ELSE IF IsInstance(e.cls, "Exception")
    THEN [pc |-> "done", print |-> <<Line(ProcessingErrorText, <<>>, e.detail, 0)>>,
          ret |-> NoneValue]
    ELSE [pc |-> "raised", print |-> <<>>, ret |-> Pending]

(***************************************************************************)
(* The state machine of one call                                           *)
(***************************************************************************)
Init ==
    /\ fn = ""
    /\ args = <<>>
    /\ pc = "idle"
    /\ requests = 0
    /\ result = 0
    /\ res = NoBody
    /\ exc = NoException
    /\ out = <<>>
    /\ ret = Pending

\* The caller invokes f(a); the url is built and the try block entered.
Call(f, a) ==
    /\ pc = "idle"
    /\ fn' = f
    /\ args' = a
    /\ pc' = "get"
    /\ UNCHANGED <<requests, result, res, exc, out, ret>>

\* What requests.get may end in: no answer in 30 s, a transport failure, or a
\* response.
GetOutcomes == {"timeout", "connection_error", "response"}

\* requests.get(url, timeout=30, verify=False)
HttpGet ==
    /\ pc = "get"
    /\ requests' = requests + 1
    /\ \E o \in GetOutcomes :
         CASE o = "timeout" ->
                /\ exc' = Exception("Timeout", "Read timed out")
                /\ pc' = "except"
                /\ UNCHANGED result
           [] o = "connection_error" ->
                /\ exc' = Exception("ConnectionError", "Connection refused")
                /\ pc' = "except"
                /\ UNCHANGED result
           [] OTHER ->
                /\ \E status \in Statuses : result' = status
                /\ pc' = "status"
                /\ UNCHANGED exc
    /\ UNCHANGED <<fn, args, res, out, ret>>

\* str(e) of the HTTPError raise_for_status builds.
HTTPErrorDetail(status) ==
    IF status < 500 THEN "Client Error" ELSE "Server Error"

\* result.raise_for_status(): HTTPError for 400 <= status < 600.
RaiseForStatus ==
    /\ pc = "status"
    /\ IF 400 <= result /\ result < 600
       THEN /\ exc' = Exception("HTTPError", HTTPErrorDetail(result))
            /\ pc' = "except"
       ELSE /\ pc' = "json"
            /\ UNCHANGED exc
    /\ UNCHANGED <<fn, args, requests, result, res, out, ret>>

\* The class of the error result.json() raises on a body that is not JSON:
\* requests.exceptions.JSONDecodeError (a RequestException) from requests 2.27
\* on, a plain ValueError before; the source pins no version.
JSONErrorClasses == {"requests.JSONDecodeError", "ValueError"}

\* res = result.json(): the body is read here.
Json ==
    /\ pc = "json"
    /\ \E b \in Bodies :
         IF b.kind = "unparsable"
         THEN /\ \E c \in JSONErrorClasses : exc' = Exception(c, "Expecting value")
              /\ pc' = "except"
              /\ UNCHANGED res
         ELSE /\ res' = b
              /\ pc' = "features"
              /\ UNCHANGED exc
    /\ UNCHANGED <<fn, args, requests, result, out, ret>>

\* if 'features' not in res or len(res['features']) == 0: print; return None
CheckFeatures ==
    /\ pc = "features"
    /\ LET c == FeaturesCheck(res)
       IN  CASE c = "raise" ->
                  /\ exc' = Exception("TypeError", res.kind)
                  /\ pc' = "except"
                  /\ UNCHANGED <<out, ret>>
             [] c = "empty" ->
                  /\ out' = Append(out, Line(NoFeaturesText(fn), args, "", 0))
                  /\ ret' = NoneValue
                  /\ pc' = "done"
                  /\ UNCHANGED exc
             [] OTHER ->
                  /\ pc' = "process"
                  /\ UNCHANGED <<exc, out, ret>>
    /\ UNCHANGED <<fn, args, requests, result, res>>

\* The rest of the try block: reshape the features and return the table.
Reshape ==
    /\ pc = "process"
    /\ LET o == Process(fn, res)
       IN  IF o.exc # NoException
           THEN /\ exc' = o.exc
                /\ pc' = "except"
                /\ UNCHANGED <<out, ret>>
           ELSE /\ out' = IF fn = "get_boundaries" THEN out
                          ELSE Append(out, Line(FoundText(fn), args, "", Len(o.df.index)))
                /\ ret' = o.df
                /\ pc' = "done"
                /\ UNCHANGED exc
    /\ UNCHANGED <<fn, args, requests, result, res>>

\* The except clauses.
Except ==
    /\ pc = "except"
    /\ LET h == Handle(fn, args, exc)
       IN  /\ pc' = h.pc
           /\ out' = out \o h.print
           /\ ret' = h.ret
    /\ UNCHANGED <<fn, args, requests, result, res, exc>>

Next ==
    \/ \E f \in Functions : \E a \in ArgsOf(f) : Call(f, a)
    \/ HttpGet
    \/ RaiseForStatus
    \/ Json
    \/ CheckFeatures
    \/ Reshape
    \/ Except

Spec == Init /\ [][Next]_vars

(***************************************************************************)
(* Properties                                                              *)
(***************************************************************************)
AdminFunctions == {"get_admin1_boundaries", "get_admin2_boundaries"}

Done == pc = "done"
ReturnedTable == Done /\ ret.kind = "DataFrame"
ReturnedNone == Done /\ ret.kind = "None"

\* The body was parsed and holds a non-empty `features` array.
HasFeatures == res.kind = "features" /\ Len(res.features) > 0

\* A geometry cell that holds a geometry which is not empty.
Populated(c) == c.kind = "geometry" /\ c.g # {}

\* Ring h lies inside ring o, off its boundary.
Enclosed(h, o) ==
    /\ Polygon(h) # {}
    /\ \A c \in Polygon(h) :
         \A dx \in {-1, 0, 1} : \A dy \in {-1, 0, 1} :
            <<c[1] + dx, c[2] + dy>> \in Polygon(o)

\* The row of a get_boundaries table labelled l (the first, if any).
RowOf(df, l) == df.rows[Min({i \in DOMAIN df.index : df.index[i] = l})]

\* C1: every call of the three functions ends, whatever the outcome of the
\* HTTP request, either returning a table or returning None after printing
\* one diagnostic; no exception leaves the function, and nothing is returned
\* before the call is done.
C1_TerminalStates ==
    /\ pc # "raised"
    /\ pc \in {"idle", "get", "status", "json", "features", "process", "except", "done"}
    /\ ~Done => ret = Pending
    /\ Done => \/ ret.kind = "DataFrame"
               \/ ret = NoneValue /\ Len(out) = 1

\* C1 witness: a reshaping error (a KeyError) was caught and turned into None
\* plus a diagnostic.
C1_Witness ==
    /\ ReturnedNone
    /\ exc.cls = "KeyError"
    /\ Len(out) = 1

\* C2: a successful admin-1/admin-2 call returns one row per feature of the
\* response, and a row's geometry is populated exactly when its feature
\* carried at least one ring.
C2_RowsAndGeometry ==
    (ReturnedTable /\ fn \in AdminFunctions) =>
        /\ Len(ret.rows) = Len(res.features)
        /\ \A i \in DOMAIN res.features :
              Populated(ret.rows[i]["geometry"])
                 <=> (res.features[i].geometry.hasRings
                        /\ Len(res.features[i].geometry.rings) >= 1)

\* C2 witness: a two-row table, one geometry populated and one null.
C2_Witness ==
    /\ ReturnedTable
    /\ fn \in AdminFunctions
    /\ Len(ret.rows) = 2
    /\ Populated(ret.rows[1]["geometry"])
    /\ ret.rows[2]["geometry"] = PyNone

\* The features a returned table was built from, with their geometry cells.
UsedGeometries ==
    IF fn = "get_boundaries"
    THEN { <<FirstFeature(res), RowOf(ret, "attributes")["rings"]>> }
    ELSE { <<res.features[i], ret.rows[i]["geometry"]>> : i \in DOMAIN res.features }

\* C3 (as claimed): for a feature with exactly two rings, an outer ring and a
\* hole inside it, the assembled geometry has a smaller area than the region
\* the outer ring encloses.
C3_HoleSubtracted ==
    ReturnedTable =>
        \A u \in UsedGeometries :
            LET rings == u[1].geometry.rings
            IN  (Len(rings) = 2 /\ Enclosed(rings[2], rings[1]))
                    => Area(u[2].g) < Area(Polygon(rings[1]))

\* C4 (as claimed): a response whose feature has a geometry member without
\* `rings` gives a table with a null or empty geometry for that feature,
\* never None with a processing-error diagnostic.  Stated for responses with
\* one feature.
C4_MissingRingsGivesNullGeometry ==
    ( /\ Done
      /\ HasFeatures
      /\ Len(res.features) = 1
      /\ "geometry" \in Range(res.features[1].keys)
      /\ ~res.features[1].geometry.hasRings )
    => /\ ret.kind = "DataFrame"
       /\ \A u \in UsedGeometries : ~Populated(u[2])

\* C5 (as claimed): when the response holds exactly one feature, the table
\* get_boundaries returns has the union of the feature's rings under `rings`
\* and, for the rest, exactly the feature's attributes with their values.
C5_UnionAndAttributes ==
    (ReturnedTable /\ fn = "get_boundaries" /\ Len(res.features) = 1) =>
        LET f == res.features[1]
        IN  /\ ret.index = <<"attributes">>
            /\ ret.columns = (DOMAIN f.attributes) \cup {"rings"}
            /\ ret.rows[1]["rings"] =
                  Geom(UNION {Polygon(f.geometry.rings[i]) : i \in DOMAIN f.geometry.rings})
            /\ \A a \in DOMAIN f.attributes : ret.rows[1][a] = Scalar(f.attributes[a])

\* C6: when the parsed body has no `features` key or an empty `features`
\* array, the call returns None, raises nothing, and prints the no-features
\* line carrying the call's parameters: attribute and value, or the ISO code.
C6_NoFeatures ==
    ( /\ Done
      /\ res.kind \in {"no_features_key", "features"}
      /\ Len(res.features) = 0 )
    => /\ ret = NoneValue
       /\ exc = NoException
       /\ out = <<Line(NoFeaturesText(fn), args, "", 0)>>
       /\ Len(args) = IF fn = "get_boundaries" THEN 2 ELSE 1

\* C6 witness: get_boundaries got an object without a `features` key.
C6_Witness ==
    /\ ReturnedNone
    /\ fn = "get_boundaries"
    /\ res.kind = "no_features_key"
    /\ out[1].params = args

\* C7: a call issues exactly one HTTP request: none before requests.get, one
\* from then on, on every path.
C7_OneRequest ==
    /\ requests <= 1
    /\ pc \notin {"idle", "get"} => requests = 1

\* C7 witness: a call that timed out has ended after one request.
C7_Witness ==
    /\ ReturnedNone
    /\ exc.cls = "Timeout"
    /\ requests = 1

\* C8: with two or more features in the response, what get_boundaries returns
\* is what it returns for the response holding the first feature alone.
C8_FirstFeatureOnly ==
    (Done /\ fn = "get_boundaries" /\ HasFeatures /\ Len(res.features) >= 2) =>
        LET single == Process(fn, Body("features", <<res.features[1]>>))
        IN  IF single.exc = NoException
            THEN ret = single.df
            ELSE ret = NoneValue /\ exc = single.exc

\* C8 witness: a table was returned although the second feature has no
\* geometry member and differs from the first in its attributes.
C8_Witness ==
    /\ ReturnedTable
    /\ fn = "get_boundaries"
    /\ Len(res.features) = 2
    /\ "geometry" \notin Range(res.features[2].keys)
    /\ res.features[2].attributes # res.features[1].attributes

C10_GeometryRowDropped ==
    (ReturnedTable /\ fn = "get_boundaries") =>
        /\ "geometry" \notin Range(ret.index)
        /\ \A a \in DOMAIN FirstFeature(res).attributes :
              RowOf(ret, "attributes")[a] = Scalar(FirstFeature(res).attributes[a])

====
